---- MODULE Spec2Model ----
(***************************************************************************)
(* A model of the data-access layer of SeaRoll/zumi (package database):    *)
(* the connection manager dbo with its background health loop, the         *)
(* transaction scope runTransactionWithOpts behind WithTX / WithReadTX,    *)
(* the query helpers SelectRowsPageable, SelectRow, SelectRows, FindOne,   *)
(* Find and Save with the generation of their statements from struct tags, *)
(* and of the consumer loop of package queue.                              *)
(*                                                                         *)
(* Six specifications share the module.  SpecPool is the manager: the      *)
(* constructor NewDatabase, the goroutine started by runReconnect, the     *)
(* caller's Disconnect and the database server as environment.  SpecTx is  *)
(* the transaction scope: callers' goroutines, each with its stack of      *)
(* runTransactionWithOpts frames, over a store with committed rows.        *)
(* SpecPage is one call of SelectRowsPageable, SpecSelect one call of      *)
(* SelectRow, SelectRows, FindOne, Find or Save, and SpecRepo one call of  *)
(* generateSelectQuery or generateInsertQuery, over every request and      *)
(* every struct type within the bounds.  SpecQueue is one Consume over the *)
(* messages of its subject.                                                *)
(* The pgx driver, goose and the NATS server are the environment: their    *)
(* calls are modelled by their contract (an error or not, and what the     *)
(* handle is afterwards).                                                  *)
(***************************************************************************)
EXTENDS Integers, Sequences, FiniteSets, TLC

\* ------------------------------------------------------------------ bounds

\* Pool handles are 1..MaxPools, reused cyclically (a Go pointer is only
\* compared for identity; two successive pools always differ).
MaxPools == 2
\* Pools that are open but no longer (or never) held by the manager are
\* counted up to MaxLeaked; the count saturates there.
MaxLeaked == 2
\* Transactions begun in one run; transaction handles are 1..MaxTx.
MaxTx == 2
\* Depth of nested WithTX / WithReadTX calls on one goroutine.
MaxDepth == 2
\* Rows written through one handle.
MaxWrites == 1
\* Health-loop goroutines counted.
MaxLoops == 2

\* The goroutines that call WithTX / WithReadTX.
Callers == {"a", "b"}

VARIABLES
    \* ---- the manager (type dbo) and its two goroutines
    urlValid,       \* d.connectionUrl parses (pgxpool.ParseConfig succeeds)
    migOk,          \* d.migrations apply cleanly on a reachable database
    env,            \* the server: "up", "down" (unreachable), "refused" (no pool can be made)
    pool,           \* d.pool: 0 is nil, else a pool handle
    poolOpen,       \* the pool d.pool refers to is open (not Close()d)
    leaked,         \* open pools d.pool does not refer to (saturating count)
    loops,          \* health-loop goroutines started so far (saturating count)
    isTeardown,     \* d.isTeardown
    mpc,            \* the caller's goroutine: "new", "failed", "ready", "closing", "panicked"
    discArg,        \* noTeardown of the Disconnect in progress
    hpc,            \* the health loop: "none", "check", "ping", "connect", "sleep", "exited"
    lastPing,       \* result of the loop's last Ping: "none", "ok", "fail"
    lastConnect,    \* result of the last connectAndMigratePool: "none" or an outcome
    lastMigrate,    \* result of migrate in the last connect: "none", "ok", "err"
    tickConnects,   \* connect attempts of the loop's current iteration
    discDone,       \* history: a Disconnect without the reuse flag has returned
    discRepeat,     \* history: the last Disconnect was called on a closed pool, with
                    \* the argument of the Disconnect that closed it
    migratedByLoop, \* history: a connect made by the health loop ran migrate
    \* ---- transactions (runTransactionWithOpts) over the store
    tx,             \* per transaction handle: status, access mode, statements issued
    db,             \* the committed rows, <<t, n>>: the n-th row written in transaction t
    stack,          \* per caller: its runTransactionWithOpts frames, innermost last
    ret,            \* the record of the call that returned in the last step, if any
    \* ---- the query helpers that run on a DBTX (pagination, select)
    call,           \* the call under way: the function and its arguments
    result          \* what the call returned, once it has

poolVars == <<urlValid, migOk, env, pool, poolOpen, leaked, loops, isTeardown, mpc,
              discArg, hpc, lastPing, lastConnect, lastMigrate, tickConnects,
              discDone, discRepeat, migratedByLoop>>

txVars == <<tx, db, stack, ret>>

libVars == <<call, result>>

vars == <<poolVars, txVars, libVars>>

\* =================================================== the transaction scope

\* ---- errors: a chain of messages, outermost first (fmt.Errorf with %w)
NoErr == <<>>
DriverErr == <<"driver">>
FnErr == <<"fn">>
TxClosedErr == <<"tx is closed">>
Wrap(msg, e) == <<msg>> \o e

\* ---- the store and the driver's transactions (DBTX, service.go 281-285)

TxIds == 1..MaxTx
NoTx == [status |-> "none", mode |-> "rw", nw |-> 0, poisoned |-> FALSE,
         begins |-> 0, commits |-> 0, rollbacks |-> 0]

\* The rows written in transaction h so far.
Writes(h) == {<<h, i>> : i \in 1..tx[h].nw}

\* What a Query through handle h returns (read committed): the committed
\* rows, and the transaction's own rows.
Snapshot(h) == db \cup Writes(h)

\* The open read-only transactions: the handles through which a concurrent
\* reader looks at the store.
Readers == {t \in TxIds : tx[t].status = "open" /\ tx[t].mode = "ro"}

Finished == {"committed", "rolledback", "aborted"}

\* ---- frames of runTransactionWithOpts

Top(c) == stack[c][Len(stack[c])]
NoCall == [valid |-> FALSE, hasExisting |-> FALSE, began |-> FALSE, h |-> 0,
           fnErr |-> NoErr, commitErr |-> NoErr, rbErr |-> NoErr,
           result |-> NoErr]

\* The caller of the next call is the application (empty stack) or the fn of
\* the innermost frame.
Callable(c) ==
    /\ Len(stack[c]) < MaxDepth
    /\ stack[c] # <<>> => Top(c).pc = "fn"

\* The call returns to its caller: its frame (if it got one) is popped.
Return(c, popped, rec) ==
    /\ stack' = [stack EXCEPT ![c] =
                   IF popped THEN SubSeq(@, 1, Len(@) - 1) ELSE @]
    /\ ret' = rec

\* ---- runTransactionWithOpts, entry (service.go 204-212)

\* if len(existingQ) > 0 { return fn(existingQ[0]) }
UsesExistingNever(hasExisting) == FALSE
UsesExisting(hasExisting) == hasExisting

\* WithReadTX asks for pgx.ReadOnly, WithTX for pgx.ReadWrite.
AccessModeAlwaysRW(api) == "rw"
AccessMode(api) == IF api = "WithReadTX" THEN "ro" ELSE "rw"

FreeTx == {t \in TxIds : tx[t].status = "none"}
FreshTx == CHOOSE t \in FreeTx : \A u \in FreeTx : t <= u

Frame(api, hasExisting, e, h, began) ==
    [api |-> api, mode |-> AccessMode(api), hasExisting |-> hasExisting,
     existing |-> e,
     h |-> h, began |-> began, pc |-> "fn", fnErr |-> NoErr,
     commitErr |-> NoErr]

Enter(c, api, hasExisting, e) ==
    /\ Callable(c)
    /\ IF UsesExisting(hasExisting)
       THEN \* fn runs on the handle that was passed
            /\ stack' = [stack EXCEPT ![c] =
                           Append(@, Frame(api, hasExisting, e, e, FALSE))]
            /\ ret' = NoCall
            /\ UNCHANGED <<tx, db>>
       ELSE /\ FreeTx # {}
            /\ \E ok \in BOOLEAN :
                 IF ok
                 THEN \* d.pool.BeginTx(ctx, opts)
                      /\ tx' = [tx EXCEPT ![FreshTx] =
                                  [NoTx EXCEPT !.status = "open",
                                               !.mode = AccessMode(api),
                                               !.begins = 1]]
                      /\ stack' = [stack EXCEPT ![c] =
                            Append(@, Frame(api, hasExisting, e, FreshTx, TRUE))]
                      /\ ret' = NoCall
                      /\ UNCHANGED db
                 ELSE \* "failed to begin transaction"
                      /\ Return(c, FALSE,
                           [NoCall EXCEPT !.valid = TRUE,
                                          !.hasExisting = hasExisting,
                                          !.result = Wrap("failed to begin transaction",
                                                          DriverErr)])
                      /\ UNCHANGED <<tx, db>>
    /\ UNCHANGED <<poolVars, libVars>>

\* WithTX(ctx, fn) / WithReadTX(ctx, fn)
CallTopLevel(c, api) == Enter(c, api, FALSE, 0)

\* WithTX(ctx, fn, tx) / WithReadTX(ctx, fn, tx), called by a fn with the
\* handle it was given
CallWithExisting(c, api) ==
    /\ stack[c] # <<>>
    /\ Enter(c, api, TRUE, Top(c).h)

\* ---- fn: the caller's code, running on its handle

\* ExecQuery through the handle (select.go 48-54).  A write fails on a
\* read-only or already failed transaction; a failed statement leaves the
\* transaction failed, and its commit will fail.
FnExec(c) ==
    /\ stack[c] # <<>>
    /\ Top(c).pc = "fn"
    /\ LET h == Top(c).h
       IN /\ tx[h].status = "open"
          /\ tx[h].nw < MaxWrites
          /\ IF tx[h].mode = "rw" /\ ~tx[h].poisoned
             THEN tx' = [tx EXCEPT ![h].nw = @ + 1]
             ELSE tx' = [tx EXCEPT ![h].poisoned = TRUE]
    /\ UNCHANGED db
    /\ ret' = NoCall
    /\ UNCHANGED <<stack, poolVars, libVars>>

\* ---- runTransactionWithOpts, after fn (service.go 214-229)

\* if err != nil { return ... }  before tx.Commit(ctx)
ShouldCommitAlways(fnErr) == TRUE
ShouldCommit(fnErr) == fnErr = NoErr

\* fn returns nil or an error.
FnResults == {NoErr, FnErr}

FnReturn(c, e) ==
    /\ stack[c] # <<>>
    /\ Top(c).pc = "fn"
    /\ IF ~Top(c).began
       THEN \* return fn(existingQ[0])
            Return(c, TRUE,
                   [NoCall EXCEPT !.valid = TRUE,
                                  !.hasExisting = Top(c).hasExisting,
                                  !.h = Top(c).h,
                                  !.fnErr = e, !.result = e])
       ELSE /\ stack' = [stack EXCEPT ![c][Len(stack[c])] =
                           [@ EXCEPT !.fnErr = e,
                                     !.pc = IF ShouldCommit(e) THEN "commit"
                                            ELSE "defer"]]
            /\ ret' = NoCall
    /\ UNCHANGED <<tx, db, poolVars, libVars>>

\* tx.Commit(ctx): on success the rows are committed; on failure the
\* transaction is over without them (pgx closes it either way).
Commit(c, ok) ==
    /\ stack[c] # <<>>
    /\ Top(c).pc = "commit"
    /\ LET h == Top(c).h
           good == ok /\ ~tx[h].poisoned /\ tx[h].status = "open"
       IN /\ tx' = [tx EXCEPT ![h].commits = @ + 1,
                              ![h].status = IF good THEN "committed"
                                            ELSE IF @ = "open" THEN "aborted" ELSE @]
          /\ db' = IF good THEN db \cup Writes(h) ELSE db
          /\ stack' = [stack EXCEPT ![c][Len(stack[c])] =
                         [@ EXCEPT !.commitErr = IF good THEN NoErr ELSE DriverErr,
                                   !.pc = "defer"]]
    /\ ret' = NoCall
    /\ UNCHANGED <<poolVars, libVars>>

\* defer func() { _ = tx.Rollback(ctx) }(): a ROLLBACK goes out when the
\* transaction is still open, and ends it whether or not the driver reports
\* an error; on a finished transaction Rollback only returns ErrTxClosed.
RollbackSkipped(status) == status
RollbackStatus(status) == IF status = "open" THEN "rolledback" ELSE status

\* The value runTransactionWithOpts returns for a transaction it began.
RunResultWithRollback(fnErr, commitErr, rbErr) ==
    IF fnErr # NoErr THEN Wrap("transaction function failed", fnErr)
    ELSE IF commitErr # NoErr THEN Wrap("failed to commit transaction", commitErr)
    ELSE IF rbErr # NoErr THEN Wrap("failed to roll back transaction", rbErr)
    ELSE NoErr
RunResult(fnErr, commitErr, rbErr) ==
    IF fnErr # NoErr THEN Wrap("transaction function failed", fnErr)
    ELSE IF commitErr # NoErr THEN Wrap("failed to commit transaction", commitErr)
    ELSE NoErr

DeferredRollback(c, ok) ==
    /\ stack[c] # <<>>
    /\ Top(c).pc = "defer"
    /\ LET h == Top(c).h
           f == Top(c)
           after == RollbackStatus(tx[h].status)
           rbErr == IF tx[h].status # "open" THEN TxClosedErr
                    ELSE IF ok THEN NoErr ELSE DriverErr
       IN /\ tx' = [tx EXCEPT ![h].status = after,
                              ![h].rollbacks = IF after # tx[h].status
                                               THEN @ + 1 ELSE @]
          /\ Return(c, TRUE,
                    [NoCall EXCEPT !.valid = TRUE, !.began = TRUE, !.h = h,
                                   !.hasExisting = f.hasExisting,
                                   !.fnErr = f.fnErr,
                                   !.commitErr = f.commitErr, !.rbErr = rbErr,
                                   !.result = RunResult(f.fnErr, f.commitErr, rbErr)])
    /\ UNCHANGED <<db, poolVars, libVars>>

\* ---- specification

\* No query helper is being called.
NoLibCall == [fn |-> "none"]
NoResult == [done |-> FALSE]
LibIdle == call = NoLibCall /\ result = NoResult

TxIdle ==
    /\ tx = [t \in TxIds |-> NoTx]
    /\ db = {}
    /\ stack = [c \in Callers |-> <<>>]
    /\ ret = NoCall

Apis == {"WithTX", "WithReadTX"}

NextTx ==
    \/ \E c \in Callers, api \in Apis : CallTopLevel(c, api)
    \/ \E c \in Callers, api \in Apis : CallWithExisting(c, api)
    \/ \E c \in Callers : FnExec(c)
    \/ \E c \in Callers, e \in FnResults : FnReturn(c, e)
    \/ \E c \in Callers, ok \in BOOLEAN : Commit(c, ok)
    \/ \E c \in Callers, ok \in BOOLEAN : DeferredRollback(c, ok)

\* ====================================================== the manager

\* ------------------------------------------------ connect (service.go 92-117)

Envs == {"up", "down", "refused"}
ConnectErrs == {"parseErr", "poolErr", "migrateErr"}

\* migrate(dbo, d.migrations) is called by every connect, first or not.
RunsMigrationsFirstOnly(first) == first
RunsMigrations(first) == TRUE

\* goose.Up succeeds when the scripts are sound and the server answers.
MigrateOk(mig, e) == mig /\ e = "up"

\* The step at which connectAndMigratePool returns, "ok" when it reaches
\* the assignment of d.pool.
ConnectOutcome(valid, mig, e, first) ==
    IF ~valid THEN "parseErr"
    ELSE IF e = "refused" THEN "poolErr"
    ELSE IF RunsMigrations(first) /\ ~MigrateOk(mig, e) THEN "migrateErr"
    ELSE "ok"

\* What migrate returned in a connect with that outcome ("none": not reached).
MigrateResult(valid, e, first, outcome) ==
    IF ~valid \/ e = "refused" \/ ~RunsMigrations(first) THEN "none"
    ELSE IF outcome = "migrateErr" THEN "err" ELSE "ok"

\* pgxpool.NewWithConfig succeeded in a connect with that outcome.
OpenedPool(outcome) == outcome \in {"migrateErr", "ok"}

NewPool(old) == (old % MaxPools) + 1

\* d.pool = pool is the last statement, reached only without error.
PoolAssignedBeforeMigrate(outcome, old) ==
    IF OpenedPool(outcome) THEN NewPool(old) ELSE old
PoolAfterConnect(outcome, old) ==
    IF outcome = "ok" THEN NewPool(old) ELSE old

Saturate(n) == IF n > MaxLeaked THEN MaxLeaked ELSE n

\* Open pools nobody refers to after a connect: a pool opened and not
\* installed, and an open pool that was replaced; neither is closed.
LeakedAfterConnect(outcome, old, new, wasOpen, n) ==
    Saturate(n + (IF OpenedPool(outcome) /\ new = old THEN 1 ELSE 0)
               + (IF new # old /\ wasOpen THEN 1 ELSE 0))

\* d.runReconnect() is called in one place: in NewDatabase, after the first
\* connect returned no error; connectAndMigratePool and healthCheckPool do
\* not call it.
LoopsAfterEveryConnect(n, first, outcome) ==
    IF outcome = "ok" /\ n < MaxLoops THEN n + 1 ELSE n
LoopsAfterConnect(n, first, outcome) ==
    IF first /\ outcome = "ok" /\ n < MaxLoops THEN n + 1 ELSE n

\* ---------------------------------------------- NewDatabase (service.go 33-52)

NewDatabase ==
    /\ mpc = "new"
    /\ LET outcome == ConnectOutcome(urlValid, migOk, env, TRUE)
           new == PoolAfterConnect(outcome, pool)
       IN /\ lastConnect' = outcome
          /\ lastMigrate' = MigrateResult(urlValid, env, TRUE, outcome)
          /\ pool' = new
          /\ poolOpen' = IF new # pool THEN TRUE ELSE poolOpen
          /\ leaked' = LeakedAfterConnect(outcome, pool, new, poolOpen, leaked)
          /\ loops' = LoopsAfterConnect(loops, TRUE, outcome)
          /\ mpc' = IF outcome = "ok" THEN "ready" ELSE "failed"
          \* d.runReconnect() only after a successful connect
          /\ hpc' = IF outcome = "ok" THEN "check" ELSE hpc
    /\ UNCHANGED <<urlValid, migOk, env, isTeardown, discArg, lastPing,
                   tickConnects, discDone, discRepeat, migratedByLoop,
                   txVars, libVars>>

\* ------------------------------------------- runReconnect (service.go 55-70)

\* if d.isTeardown.Load() { return }
LoopExits(flag) == flag

HealthCheckTeardown ==
    /\ hpc = "check"
    /\ hpc' = IF LoopExits(isTeardown) THEN "exited" ELSE "ping"
    /\ tickConnects' = 0
    /\ UNCHANGED <<urlValid, migOk, env, pool, poolOpen, leaked, loops, isTeardown,
                   mpc, discArg, lastPing, lastConnect, lastMigrate, discDone, discRepeat,
                   migratedByLoop,
                   txVars, libVars>>

\* time.Sleep(5 * time.Second), then the next iteration
HealthSleep ==
    /\ hpc = "sleep"
    /\ hpc' = "check"
    /\ UNCHANGED <<urlValid, migOk, env, pool, poolOpen, leaked, loops, isTeardown,
                   mpc, discArg, lastPing, lastConnect, lastMigrate,
                   tickConnects, discDone, discRepeat, migratedByLoop,
                   txVars, libVars>>

\* ---------------------------------------- healthCheckPool (service.go 73-88)

\* d.pool.Ping: a closed pool and an unreachable server both give an error.
PingOk(open, e) == open /\ e = "up"

\* if err != nil { ... d.connectAndMigratePool(ctx) ... }
ReconnectsNever(pingOk) == FALSE
Reconnects(pingOk) == ~pingOk

HealthPing ==
    /\ hpc = "ping"
    /\ LET ok == PingOk(poolOpen, env)
       IN /\ lastPing' = IF ok THEN "ok" ELSE "fail"
          /\ hpc' = IF Reconnects(ok) THEN "connect" ELSE "sleep"
          \* a failed ping opens a new episode: no connect made since
          /\ lastConnect' = IF ok THEN lastConnect ELSE "none"
          /\ lastMigrate' = IF ok THEN lastMigrate ELSE "none"
    /\ UNCHANGED <<urlValid, migOk, env, pool, poolOpen, leaked, loops, isTeardown,
                   mpc, discArg, tickConnects, discDone, discRepeat, migratedByLoop,
                   txVars, libVars>>

\* After a connect the loop logs the result either way and goes to sleep.
AfterReconnectFatal(outcome) == IF outcome = "ok" THEN "sleep" ELSE "exited"
AfterReconnect(outcome) == "sleep"

HealthConnect ==
    /\ hpc = "connect"
    /\ LET outcome == ConnectOutcome(urlValid, migOk, env, FALSE)
           new == PoolAfterConnect(outcome, pool)
           mig == MigrateResult(urlValid, env, FALSE, outcome)
       IN /\ lastConnect' = outcome
          /\ lastMigrate' = mig
          /\ migratedByLoop' = (migratedByLoop \/ mig # "none")
          /\ pool' = new
          /\ poolOpen' = IF new # pool THEN TRUE ELSE poolOpen
          /\ leaked' = LeakedAfterConnect(outcome, pool, new, poolOpen, leaked)
          /\ loops' = LoopsAfterConnect(loops, FALSE, outcome)
          /\ hpc' = AfterReconnect(outcome)
    /\ tickConnects' = tickConnects + 1
    /\ UNCHANGED <<urlValid, migOk, env, isTeardown, mpc, discArg, lastPing,
                   discDone, discRepeat,
                   txVars, libVars>>

\* -------------------------------------------- Disconnect (service.go 146-153)

\* if len(noTeardown) == 0 || !noTeardown[0] { d.isTeardown.Store(true) }
TeardownFollowsArgument(flag, noTeardown) == ~noTeardown
TeardownAlways(flag, noTeardown) == TRUE
TeardownAfterDisconnect(flag, noTeardown) == IF noTeardown THEN flag ELSE TRUE

DisconnectStore(noTeardown) ==
    /\ mpc = "ready"
    /\ isTeardown' = TeardownAfterDisconnect(isTeardown, noTeardown)
    /\ discArg' = noTeardown
    /\ discRepeat' = (~poolOpen /\ noTeardown = discArg)
    /\ mpc' = "closing"
    /\ UNCHANGED <<urlValid, migOk, env, pool, poolOpen, leaked, loops, hpc, lastPing,
                   lastConnect, lastMigrate, tickConnects, discDone,
                   migratedByLoop,
                   txVars, libVars>>

\* pgxpool's Close runs its body once (sync.Once): on a pool already closed
\* it returns without doing anything.
AfterCloseFaultsOnClosed(open) == IF open THEN "ready" ELSE "panicked"
AfterClose(open) == "ready"

\* d.pool.Close(), and Disconnect returns
DisconnectClose ==
    /\ mpc = "closing"
    /\ poolOpen' = FALSE
    /\ mpc' = AfterClose(poolOpen)
    /\ discDone' = (discDone \/ ~discArg)
    /\ UNCHANGED <<urlValid, migOk, env, pool, leaked, loops, isTeardown, discArg, hpc,
                   lastPing, lastConnect, lastMigrate, tickConnects, discRepeat,
                   migratedByLoop,
                   txVars, libVars>>

\* ------------------------------------------------------------ environment

\* The server goes down, comes back, or stops accepting new pools.
EnvChange(e) ==
    /\ e # env
    /\ env' = e
    /\ UNCHANGED <<urlValid, migOk, pool, poolOpen, leaked, loops, isTeardown, mpc,
                   discArg, hpc, lastPing, lastConnect, lastMigrate,
                   tickConnects, discDone, discRepeat, migratedByLoop,
                   txVars, libVars>>

\* ---------------------------------------------------------- specification

InitPool ==
    /\ urlValid \in BOOLEAN
    /\ migOk \in BOOLEAN
    /\ env \in Envs
    /\ pool = 0
    /\ poolOpen = FALSE
    /\ leaked = 0
    /\ loops = 0
    /\ isTeardown = FALSE
    /\ mpc = "new"
    /\ discArg = FALSE
    /\ hpc = "none"
    /\ lastPing = "none"
    /\ lastConnect = "none"
    /\ lastMigrate = "none"
    /\ tickConnects = 0
    /\ discDone = FALSE
    /\ discRepeat = FALSE
    /\ migratedByLoop = FALSE
    /\ TxIdle
    /\ LibIdle

HealthStep ==
    \/ HealthCheckTeardown
    \/ HealthPing
    \/ HealthConnect
    \/ HealthSleep

NextPool ==
    \/ NewDatabase
    \/ HealthStep
    \/ \E b \in BOOLEAN : DisconnectStore(b)
    \/ DisconnectClose
    \/ \E e \in Envs : EnvChange(e)

SpecPool == InitPool /\ [][NextPool]_vars

\* The loop is a goroutine of its own: the scheduler runs it whenever it can
\* take a step, and the caller's Disconnect returns once it has started.
SpecPoolFair == SpecPool /\ WF_vars(HealthStep) /\ WF_vars(DisconnectClose)

\* Transactions run on a manager that NewDatabase has returned.
ManagerReady ==
    /\ urlValid = TRUE
    /\ migOk = TRUE
    /\ env = "up"
    /\ pool = 1
    /\ poolOpen = TRUE
    /\ leaked = 0
    /\ loops = 1
    /\ isTeardown = FALSE
    /\ mpc = "ready"
    /\ discArg = FALSE
    /\ hpc = "check"
    /\ lastPing = "none"
    /\ lastConnect = "ok"
    /\ lastMigrate = "ok"
    /\ tickConnects = 0
    /\ discDone = FALSE
    /\ discRepeat = FALSE
    /\ migratedByLoop = FALSE

InitTx == ManagerReady /\ TxIdle /\ LibIdle

SpecTx == InitTx /\ [][NextTx]_vars

\* ===================================================== the query helpers
\*
\* SQL text and sort directives are strings, modelled as sequences of atoms
\* (words, separators, placeholders); += and fmt.Sprintf are concatenation.
\* The database is the environment: it answers a query by what the text
\* and the bound arguments say.

\* ------------------------------------------------------------------ bounds

\* Directives in PageRequest.Sort.
MaxSort == 2
\* PageRequest.Page is 0..MaxPage, PageRequest.Size is 0..MaxSize.
MaxPage == 2
MaxSize == 2
\* Arguments the caller passes along with the base query.
MaxArgs == 1
\* Rows the base query matches.
MaxRows == 5

\* ---------------------------------------------------------------- strings

\* The text of the positional parameters $1, $2, ...
Placeholders == <<"$1", "$2", "$3", "$4", "$5", "$6">>
PH(i) == Placeholders[i]
PhNum(atom) == CHOOSE i \in 1..Len(Placeholders) : Placeholders[i] = atom

\* strings.Split(s, ","): the pieces between the commas, at least one.
RECURSIVE Split(_)
Split(s) ==
    IF \A i \in 1..Len(s) : s[i] # "," THEN <<s>>
    ELSE LET i == CHOOSE i \in 1..Len(s) :
                      s[i] = "," /\ \A j \in 1..(i - 1) : s[j] # ","
         IN <<SubSeq(s, 1, i - 1)>> \o Split(SubSeq(s, i + 1, Len(s)))

Min(a, b) == IF a < b THEN a ELSE b
Max(a, b) == IF a > b THEN a ELSE b

\* ------------------------------------------------------- the database (pgx)

\* An argument bound to a placeholder: one of the caller's, or an integer.
CallerArg(i) == [kind |-> "caller", v |-> i]
IntArg(x) == [kind |-> "int", v |-> x]

\* The highest positional parameter the text refers to.
ParamCount(q) ==
    LET used == {i \in 1..Len(Placeholders) :
                     \E j \in 1..Len(q) : q[j] = Placeholders[i]}
    IN IF used = {} THEN 0 ELSE CHOOSE i \in used : \A u \in used : u <= i

\* A continuation ", x" of a sort list needs the ORDER BY that starts it.
SyntaxOk(q) ==
    \A i \in 1..Len(q) : q[i] = ", " => \E j \in 1..(i - 1) : q[j] = " ORDER BY "

\* The server rejects text it cannot parse; pgx rejects a call whose number
\* of arguments is not the number of parameters of the prepared statement.
QueryErr(q, args) ==
    IF ~SyntaxOk(q) THEN <<"syntax error">>
    ELSE IF ParamCount(q) # Len(args) THEN <<"expected arguments">>
    ELSE NoErr

\* The value bound to the placeholder that follows the keyword kw.
ClauseValue(q, args, kw, default) ==
    IF \E i \in 1..(Len(q) - 1) : q[i] = kw
    THEN LET i == CHOOSE i \in 1..(Len(q) - 1) : q[i] = kw
         IN args[PhNum(q[i + 1])].v
    ELSE default

\* The rows a query returns out of the n rows its base query matches, by
\* their rank in the order the query asks for.
QueryRows(q, args, n) ==
    LET lim == ClauseValue(q, args, " LIMIT ", n)
        off == ClauseValue(q, args, " OFFSET ", 0)
        cnt == Min(lim, Max(0, n - off))
    IN [j \in 1..cnt |-> off + j]

\* SELECT COUNT(*) FROM (<inner>) AS count_query: the rows of the inner query.
CountRows(cq, args, n) == Len(QueryRows(SubSeq(cq, 2, Len(cq) - 1), args, n))

\* ------------------------------------ SelectRowsPageable (service.go 339-424)

\* offset := pageRequest.Page * pageRequest.Size; limit := pageRequest.Size
Offset(pageRequest) == pageRequest.Page * pageRequest.Size
Limit(pageRequest) == pageRequest.Size

\* `if i == 0` tests the index in the list (the first element in Go is 0).
IsFirstSort(i) == i = 1

\* What one directive adds to the query.
RenderSort(i, sort) ==
    LET splitSort == Split(sort)
    IN IF sort = <<>> THEN <<>>
       ELSE IF Len(splitSort) = 2 /\ splitSort[2] \in {<<"asc">>, <<"desc">>}
       THEN IF IsFirstSort(i)
            THEN <<" ORDER BY ">> \o splitSort[1] \o <<" ">> \o splitSort[2]
            ELSE <<", ">> \o splitSort[1] \o <<" ">> \o splitSort[2]
       ELSE IF IsFirstSort(i)
            THEN <<" ORDER BY ">> \o sort
            ELSE <<", ">> \o sort

\* for i, sort := range pageRequest.Sort { ... }
RECURSIVE WithSorting(_, _, _)
WithSorting(query, Sort, i) ==
    IF i > Len(Sort) THEN query
    ELSE WithSorting(query \o RenderSort(i, Sort[i]), Sort, i + 1)

\* query += " LIMIT $1 OFFSET $2", whatever the caller's arguments are.
LimitOffsetClause(args) == <<" LIMIT ", PH(1), " OFFSET ", PH(2)>>

\* args = append(args, limit, offset)
PageArgs(args, pageRequest) ==
    args \o <<IntArg(Limit(pageRequest)), IntArg(Offset(pageRequest))>>

\* countQuery := "SELECT COUNT(*) FROM (" + query + ") AS count_query", from
\* the query as it stands then: sorted, and with its LIMIT and OFFSET.
CountQuery(query) ==
    <<"SELECT COUNT(*) FROM (">> \o query \o <<") AS count_query">>

\* int((totalElements + int64(Size) - 1) / int64(Size)), Size not 0
TotalPagesFloor(totalElements, size) == totalElements \div size
TotalPages(totalElements, size) == (totalElements + size - 1) \div size

\* The division by int64(pageRequest.Size) with Size 0: the runtime panics,
\* no value and no error is returned.
DivideByZeroAsError(res) == [res EXCEPT !.err = <<"invalid page size">>]
DivideByZero(res) == [res EXCEPT !.fault = "integer divide by zero"]

\* var page Page[T]
ZeroPage ==
    [Content |-> <<>>, Pageable |-> [Page |-> 0, Size |-> 0, Sort |-> <<>>],
     TotalElements |-> 0, TotalPages |-> 0, Number |-> 0, Size |-> 0,
     NumberOfElements |-> 0, IsLast |-> FALSE, IsFirst |-> FALSE,
     IsEmpty |-> FALSE]

\* What a call returns: the page and the error, or the fault that ends it,
\* with the two statements it sent.  fail is the statement, if any, on which
\* the connection fails.
PageableResult(pageRequest, baseQuery, baseArgs, n, fail) ==
    LET page0 == [ZeroPage EXCEPT !.Pageable = pageRequest]
        query == WithSorting(baseQuery, pageRequest.Sort, 1)
                     \o LimitOffsetClause(baseArgs)
        args == PageArgs(baseArgs, pageRequest)
        qErr == IF fail = "query" THEN DriverErr ELSE QueryErr(query, args)
        results == QueryRows(query, args, n)
        page1 == [page0 EXCEPT !.Content = results,
                               !.Number = pageRequest.Page,
                               !.Size = pageRequest.Size,
                               !.NumberOfElements = Len(results),
                               !.IsEmpty = (Len(results) = 0)]
        countQuery == CountQuery(query)
        cErr == IF fail = "count" THEN DriverErr ELSE QueryErr(countQuery, args)
        totalElements == CountRows(countQuery, args, n)
        totalPages == TotalPages(totalElements, pageRequest.Size)
        sent == [done |-> TRUE, fault |-> "none", err |-> NoErr, page |-> page0,
                 query |-> query, args |-> args,
                 countQuery |-> <<>>, countArgs |-> <<>>]
        counted == [sent EXCEPT !.countQuery = countQuery, !.countArgs = args,
                                !.page = page1]
    IN IF qErr # NoErr
       THEN [sent EXCEPT !.err = Wrap("failed to execute query", qErr)]
       ELSE IF cErr # NoErr
       THEN [counted EXCEPT !.err = Wrap("failed to get total elements", cErr)]
       ELSE IF pageRequest.Size = 0
       THEN DivideByZero(counted)
       ELSE [counted EXCEPT
                !.page = [page1 EXCEPT
                             !.TotalElements = totalElements,
                             !.TotalPages = totalPages,
                             !.IsLast = (page1.Number >= totalPages - 1),
                             !.IsFirst = (page1.Number = 0)]]

DbFailures == {"none", "query", "count"}

SelectRowsPageable(fail) ==
    /\ call.fn = "SelectRowsPageable"
    /\ ~result.done
    /\ result' = PageableResult(call.pageRequest, call.query, call.args,
                                call.n, fail)
    /\ UNCHANGED <<poolVars, txVars, call>>

\* ---------------------------------------------------------- specification

\* The sort directives callers pass: "", "name", "name,asc", "age,desc" and
\* "age,name,asc".
Directives ==
    {<<>>, <<"name">>, <<"name", ",", "asc">>, <<"age", ",", "desc">>,
     <<"age", ",", "name", ",", "asc">>}
SortLists == UNION {[1..m -> Directives] : m \in 0..MaxSort}

\* A base query with k arguments refers to $1 .. $k.
BaseQuery(k) == <<"SELECT * FROM t">> \o [i \in 1..k |-> PH(i)]
CallerArgs(k) == [i \in 1..k |-> CallerArg(i)]

PageCalls ==
    {[fn |-> "SelectRowsPageable",
      pageRequest |-> [Page |-> p, Size |-> s, Sort |-> so],
      query |-> BaseQuery(k), args |-> CallerArgs(k), n |-> n] :
        p \in 0..MaxPage, s \in 0..MaxSize, so \in SortLists,
        k \in 0..MaxArgs, n \in 0..MaxRows}

InitPage == ManagerReady /\ TxIdle /\ call \in PageCalls /\ result = NoResult

NextPage == \E fail \in DbFailures : SelectRowsPageable(fail)

SpecPage == InitPage /\ [][NextPage]_vars

\* ------------------------------------------- struct types and their tags

\* Fields of a struct type.
MaxFields == 4

\* A struct tag: reflect's Lookup says whether the key is there, Get gives
\* its value, the empty string when it is not.
NoTag == [has |-> FALSE, v |-> <<>>]
Tag(v) == [has |-> TRUE, v |-> v]
TagGet(tag) == tag.v
TagLookup(tag) == tag.has

\* The column of the i-th field, and the expression of a computed one.
ColNames == <<"f1", "f2", "f3", "f4", "f5">>
ColName(i) == <<ColNames[i]>>
Computed(i) == <<"(SELECT count(*) FROM ", ColNames[i], ")">>

\* The fields a mapped struct is made of: the table marker (`db:"-"
\* table:"companies c"`, or without alias), a primary-key column, a plain
\* column, a computed column (`query`), an ignored field (`db:"-"`) and a
\* field without tags.  The value of the i-th field of the data is i.
FieldKinds ==
    {"table", "tableNoAlias", "key", "column", "computed", "ignored", "untagged"}

MakeField(kind, i) ==
    [table |-> IF kind = "table" THEN Tag(<<"companies", " ", "c">>)
               ELSE IF kind = "tableNoAlias" THEN Tag(<<"companies">>)
               ELSE NoTag,
     db |-> IF kind \in {"table", "tableNoAlias", "ignored"} THEN Tag(<<"-">>)
            ELSE IF kind = "untagged" THEN NoTag
            ELSE Tag(ColName(i)),
     query |-> IF kind = "computed" THEN Tag(Computed(i)) ELSE NoTag,
     primary |-> IF kind = "key" THEN Tag(<<"true">>) ELSE NoTag,
     value |-> i]

StructOf(kinds) ==
    [kind |-> "struct",
     fields |-> [i \in 1..Len(kinds) |-> MakeField(kinds[i], i)]]

StructTypes ==
    {StructOf(ks) : ks \in UNION {[1..m -> FieldKinds] : m \in 0..MaxFields}}

\* A type that is not a struct.
NonStruct == [kind |-> "int", fields |-> <<>>]

\* strings.Split(s, sep)
RECURSIVE SplitOn(_, _)
SplitOn(s, sep) ==
    IF \A i \in 1..Len(s) : s[i] # sep THEN <<s>>
    ELSE LET i == CHOOSE i \in 1..Len(s) :
                      s[i] = sep /\ \A j \in 1..(i - 1) : s[j] # sep
         IN <<SubSeq(s, 1, i - 1)>> \o SplitOn(SubSeq(s, i + 1, Len(s)), sep)

\* strings.Join(strs, sep)
RECURSIVE Join(_, _)
Join(strs, sep) ==
    IF strs = <<>> THEN <<>>
    ELSE IF Len(strs) = 1 THEN strs[1]
    ELSE strs[1] \o sep \o Join(Tail(strs), sep)

\* ------------------------------------ generateSelectQuery (repo.go 84-138)

NotStructErr == <<"expected a struct">>
NoTableErr == <<"no table tag found in struct">>

\* One iteration of the loop over the fields.
SelectField(st, field) ==
    LET tableTag == TagGet(field.table)
        parts == SplitOn(tableTag, " ")
        tableAlias == IF Len(parts) > 1 THEN parts[2] ELSE st.tableAlias
        dbTag == TagGet(field.db)
        queryTag == TagGet(field.query)
    IN IF tableTag # <<>>
       THEN [selectClauses |->
                 IF tableAlias # <<>>
                 THEN Append(st.selectClauses, tableAlias \o <<".*">>)
                 ELSE st.selectClauses,
             fromClause |-> tableTag,
             tableAlias |-> tableAlias]
       ELSE IF dbTag = <<"-">> THEN st
       ELSE IF queryTag # <<>>
       THEN [st EXCEPT !.selectClauses =
                 Append(@, queryTag \o <<" AS ">> \o dbTag)]
       ELSE st

RECURSIVE SelectFields(_, _, _)
SelectFields(st, fields, i) ==
    IF i > Len(fields) THEN st
    ELSE SelectFields(SelectField(st, fields[i]), fields, i + 1)

generateSelectQuery(T) ==
    LET st == SelectFields([selectClauses |-> <<>>, fromClause |-> <<>>,
                            tableAlias |-> <<>>], T.fields, 1)
    IN IF T.kind # "struct" THEN [query |-> <<>>, err |-> NotStructErr]
       ELSE IF st.fromClause = <<>> THEN [query |-> <<>>, err |-> NoTableErr]
       ELSE [query |-> <<"SELECT\n  ">> \o Join(st.selectClauses, <<",\n  ">>)
                           \o <<"\nFROM ">> \o st.fromClause,
             err |-> NoErr]

\* ----------------------------------- generateInsertQuery (repo.go 161-245)

NotStructPtrErr == <<"input must be a struct pointer">>
MissingTableErr == <<"missing 'table' tag in struct">>
NoPrimaryKeyErr == <<"no primary key found">>

\* First pass: the table name of the first field that has a table tag.
TableName(fields) ==
    IF \E i \in 1..Len(fields) : TagLookup(fields[i].table)
    THEN LET i == CHOOSE i \in 1..Len(fields) :
                      /\ TagLookup(fields[i].table)
                      /\ \A j \in 1..(i - 1) : ~TagLookup(fields[j].table)
         IN SplitOn(TagGet(fields[i].table), " ")[1]
    ELSE <<>>

\* A field that the insert leaves out: no db tag, `db:"-"`, or a query tag.
SkippedNever(field) == FALSE
Skipped(field) ==
    \/ TagGet(field.db) = <<>>
    \/ TagGet(field.db) = <<"-">>
    \/ TagLookup(field.query)

\* One iteration of the second loop.
InsertField(st, field) ==
    IF Skipped(field) THEN st
    ELSE [columns |-> Append(st.columns, TagGet(field.db)),
          values |-> Append(st.values, field.value),
          primaryKeys |-> IF TagGet(field.primary) = <<"true">>
                          THEN Append(st.primaryKeys, TagGet(field.db))
                          ELSE st.primaryKeys]

RECURSIVE InsertFields(_, _, _)
InsertFields(st, fields, i) ==
    IF i > Len(fields) THEN st
    ELSE InsertFields(InsertField(st, fields[i]), fields, i + 1)

\* placeholders[i] = fmt.Sprintf("$%d", i+1)
InsertPlaceholders(columns) == [i \in 1..Len(columns) |-> <<PH(i)>>]

\* updateSet: "col = EXCLUDED.col" for the columns that are not in pkMap.
UpdateSetAll(columns, primaryKeys) ==
    [i \in 1..Len(columns) |-> columns[i] \o <<" = EXCLUDED.">> \o columns[i]]
UpdateSet(columns, primaryKeys) ==
    LET isPk(col) == \E j \in 1..Len(primaryKeys) : primaryKeys[j] = col
        notPk(col) == ~isPk(col)
        cols == SelectSeq(columns, notPk)
    IN [i \in 1..Len(cols) |-> cols[i] \o <<" = EXCLUDED.">> \o cols[i]]

\* DO UPDATE SET ..., or DO NOTHING when there is nothing to set.
ConflictAction(updateSet) ==
    IF Len(updateSet) > 0
    THEN <<"DO UPDATE SET ">> \o Join(updateSet, <<",\n">>)
    ELSE <<"DO NOTHING">>

\* The query, the values and the error, with the three lists the query is
\* written from.
generateInsertQuery(T) ==
    LET tableName == TableName(T.fields)
        st == InsertFields([columns |-> <<>>, values |-> <<>>,
                            primaryKeys |-> <<>>], T.fields, 1)
        placeholders == InsertPlaceholders(st.columns)
        updateSet == UpdateSet(st.columns, st.primaryKeys)
        none == [query |-> <<>>, values |-> <<>>, err |-> NoErr,
                 columns |-> <<>>, placeholders |-> <<>>,
                 primaryKeys |-> <<>>, updateSet |-> <<>>]
    IN IF T.kind # "struct" THEN [none EXCEPT !.err = NotStructPtrErr]
       ELSE IF tableName = <<>> THEN [none EXCEPT !.err = MissingTableErr]
       ELSE IF Len(st.primaryKeys) = 0 THEN [none EXCEPT !.err = NoPrimaryKeyErr]
       ELSE [query |->
                 <<"INSERT INTO ">> \o tableName \o <<" (">>
                     \o Join(st.columns, <<", ">>) \o <<")\n">>
                 \o <<"VALUES (">> \o Join(placeholders, <<", ">>) \o <<")\n">>
                 \o <<"ON CONFLICT(">> \o Join(st.primaryKeys, <<", ">>)
                     \o <<")\n">>
                 \o ConflictAction(updateSet),
             values |-> st.values, err |-> NoErr,
             columns |-> st.columns, placeholders |-> placeholders,
             primaryKeys |-> st.primaryKeys, updateSet |-> updateSet]

\* ------------------------------------- SelectRow, SelectRows (select.go 13-44)

\* pgx.ErrNoRows, exported as database.ErrNoRows (service.go 19).
ErrNoRows == <<"no rows in result set">>
\* The error of pgx.RowToStructByName on a row that does not fit T.
DecodeErr == <<"cannot scan row into struct">>

\* errors.Is(err, target): target is err or one of the errors err wraps.
ErrorsIs(err, target) == \E i \in 1..Len(err) : SubSeq(err, i, Len(err)) = target

\* The zero value of T, and the rows of a result by their place in it.
ZeroValue == 0

\* pgx.CollectOneRow: ErrNoRows when there is no first row, else the first
\* row decoded; the rows after the first are not looked at.
CollectOneRowOrZero(n, decodable) ==
    IF n = 0 THEN [value |-> ZeroValue, err |-> NoErr]
    ELSE IF ~decodable THEN [value |-> ZeroValue, err |-> DecodeErr]
    ELSE [value |-> 1, err |-> NoErr]
CollectOneRow(n, decodable) ==
    IF n = 0 THEN [value |-> ZeroValue, err |-> ErrNoRows]
    ELSE IF ~decodable THEN [value |-> ZeroValue, err |-> DecodeErr]
    ELSE [value |-> 1, err |-> NoErr]

\* pgx.CollectRows: every row decoded, in result order, into a slice that is
\* empty and not nil when there are none.
CollectRowsOrNoRows(n, decodable) ==
    IF n = 0 THEN [rows |-> <<>>, isNil |-> TRUE, err |-> ErrNoRows]
    ELSE IF ~decodable THEN [rows |-> <<>>, isNil |-> TRUE, err |-> DecodeErr]
    ELSE [rows |-> [j \in 1..n |-> j], isNil |-> FALSE, err |-> NoErr]
CollectRows(n, decodable) ==
    IF n > 0 /\ ~decodable THEN [rows |-> <<>>, isNil |-> TRUE, err |-> DecodeErr]
    ELSE [rows |-> [j \in 1..n |-> j], isNil |-> FALSE, err |-> NoErr]

\* What SelectRow returns over a query that matches n rows; fail: dbtx.Query
\* returns an error.
SelectRowResult(n, decodable, fail) ==
    LET one == CollectOneRow(n, decodable)
    IN IF fail
       THEN [value |-> ZeroValue, err |-> Wrap("failed to execute query", DriverErr)]
       ELSE IF one.err # NoErr
       THEN [value |-> one.value, err |-> Wrap("failed to collect row", one.err)]
       ELSE [value |-> one.value, err |-> NoErr]

\* What SelectRows returns.
SelectRowsResult(n, decodable, fail) ==
    LET all == CollectRows(n, decodable)
    IN IF fail
       THEN [rows |-> <<>>, isNil |-> TRUE,
             err |-> Wrap("failed to execute query", DriverErr)]
       ELSE IF all.err # NoErr
       THEN [rows |-> <<>>, isNil |-> TRUE,
             err |-> Wrap("failed to collect rows", all.err)]
       ELSE [rows |-> all.rows, isNil |-> all.isNil, err |-> NoErr]

\* ExecQuery (select.go 48-54)
ExecQueryResult(fail) ==
    IF fail THEN Wrap("failed to execute query", DriverErr) ELSE NoErr

\* --------------------------------------------- FindOne, Find (repo.go 37-81)

\* if err != nil { return ... } after the query is generated
GenerationIgnored(err) == FALSE
GenerationFailed(err) == err # NoErr

\* query := fmt.Sprintf("%s %s", baseQuery, options)
FindQuery(baseQuery, options) == baseQuery \o <<" ">> \o options

\* What FindOne returns, with the statements it sent to dbtx.
FindOneResult(T, options, n, decodable, fail) ==
    LET gen == generateSelectQuery(T)
        row == SelectRowResult(n, decodable, fail)
        sent == <<FindQuery(gen.query, options)>>
    IN IF GenerationFailed(gen.err)
       THEN [value |-> ZeroValue, sent |-> <<>>,
             err |-> Wrap("failed to generate select query", gen.err)]
       ELSE IF row.err # NoErr
       THEN [value |-> row.value, sent |-> sent,
             err |-> Wrap("failed to execute query", row.err)]
       ELSE [value |-> row.value, sent |-> sent, err |-> NoErr]

FindResult(T, options, n, decodable, fail) ==
    LET gen == generateSelectQuery(T)
        rows == SelectRowsResult(n, decodable, fail)
        sent == <<FindQuery(gen.query, options)>>
    IN IF GenerationFailed(gen.err)
       THEN [rows |-> <<>>, isNil |-> TRUE, sent |-> <<>>,
             err |-> Wrap("failed to generate select query", gen.err)]
       ELSE IF rows.err # NoErr
       THEN [rows |-> <<>>, isNil |-> TRUE, sent |-> sent,
             err |-> Wrap("failed to execute query", rows.err)]
       ELSE [rows |-> rows.rows, isNil |-> rows.isNil, sent |-> sent,
             err |-> NoErr]

\* ------------------------------------------------- Save (repo.go 148-157)

\* What Save returns, with the statements (query and values) it sent.
SaveResult(T, fail) ==
    LET gen == generateInsertQuery(T)
        exec == ExecQueryResult(fail)
        sent == <<[query |-> gen.query, args |-> gen.values]>>
    IN IF GenerationFailed(gen.err)
       THEN [sent |-> <<>>,
             err |-> Wrap("failed to generate insert query", gen.err)]
       ELSE IF exec # NoErr
       THEN [sent |-> sent, err |-> Wrap("failed to execute insert query", exec)]
       ELSE [sent |-> sent, err |-> NoErr]

\* A call returns: its results, and whether the statement reached the server
\* and came back.
Returned(res, fail) == [done |-> TRUE, failed |-> fail] @@ res

SelectRow(fail) ==
    /\ call.fn = "SelectRow"
    /\ ~result.done
    /\ result' = Returned([sent |-> <<call.query>>]
                              @@ SelectRowResult(call.n, call.decodable, fail),
                          fail)
    /\ UNCHANGED <<poolVars, txVars, call>>

SelectRows(fail) ==
    /\ call.fn = "SelectRows"
    /\ ~result.done
    /\ result' = Returned([sent |-> <<call.query>>]
                              @@ SelectRowsResult(call.n, call.decodable, fail),
                          fail)
    /\ UNCHANGED <<poolVars, txVars, call>>

FindOne(fail) ==
    /\ call.fn = "FindOne"
    /\ ~result.done
    /\ result' = Returned(FindOneResult(call.T, call.options, call.n,
                                        call.decodable, fail), fail)
    /\ UNCHANGED <<poolVars, txVars, call>>

Find(fail) ==
    /\ call.fn = "Find"
    /\ ~result.done
    /\ result' = Returned(FindResult(call.T, call.options, call.n,
                                     call.decodable, fail), fail)
    /\ UNCHANGED <<poolVars, txVars, call>>

Save(fail) ==
    /\ call.fn = "Save"
    /\ ~result.done
    /\ result' = Returned(SaveResult(call.T, fail), fail)
    /\ UNCHANGED <<poolVars, txVars, call>>

\* ---------------------------------------------------------- specification

\* The row type of the examples: a table marker, a key, a column and a
\* computed column.
Book == StructOf(<<"table", "key", "column", "computed">>)

\* The calls: the function, the rows its query matches and whether these
\* fit T; SelectRow and SelectRows with the query as given, FindOne and Find
\* with a type T to generate it from; Save with the type of the data.
SelectCalls ==
    {[fn |-> f, n |-> n, decodable |-> d, T |-> Book,
      query |-> <<"SELECT * FROM books">>] :
        f \in {"SelectRow", "SelectRows"}, n \in 0..MaxRows, d \in BOOLEAN}
    \cup
    {[fn |-> f, n |-> n, decodable |-> d, T |-> t,
      options |-> <<"WHERE c.f2 = ", "$1">>] :
        f \in {"FindOne", "Find"}, n \in 0..MaxRows, d \in BOOLEAN,
        t \in {Book, NonStruct, StructOf(<<"key", "column">>)}}
    \cup
    {[fn |-> "Save", T |-> t] : t \in StructTypes \cup {NonStruct}}

InitSelect == ManagerReady /\ TxIdle /\ call \in SelectCalls /\ result = NoResult

NextSelect ==
    \/ \E fail \in BOOLEAN : SelectRow(fail)
    \/ \E fail \in BOOLEAN : SelectRows(fail)
    \/ \E fail \in BOOLEAN : FindOne(fail)
    \/ \E fail \in BOOLEAN : Find(fail)
    \/ \E fail \in BOOLEAN : Save(fail)

SpecSelect == InitSelect /\ [][NextSelect]_vars

\* The two generators, each applied to every type within the bounds.
CallGenerateSelect ==
    /\ call.fn = "generateSelectQuery"
    /\ ~result.done
    /\ result' = [done |-> TRUE] @@ generateSelectQuery(call.T)
    /\ UNCHANGED <<poolVars, txVars, call>>

CallGenerateInsert ==
    /\ call.fn = "generateInsertQuery"
    /\ ~result.done
    /\ result' = [done |-> TRUE] @@ generateInsertQuery(call.T)
    /\ UNCHANGED <<poolVars, txVars, call>>

RepoCalls ==
    {[fn |-> f, T |-> t] :
        f \in {"generateSelectQuery", "generateInsertQuery"},
        t \in StructTypes \cup {NonStruct}}

InitRepo == ManagerReady /\ TxIdle /\ call \in RepoCalls /\ result = NoResult

NextRepo == CallGenerateSelect \/ CallGenerateInsert

SpecRepo == InitRepo /\ [][NextRepo]_vars

\* ================================================ the queue consumer (NATS)
\*
\* Consume of package queue (src/queue/client.go): one consumer goroutine
\* over the messages stored on its subject.  call is its configuration,
\* result the state of the loop and of the messages at the server.

\* Messages stored on the subject when Consume starts.
MaxMsgs == 3
\* ConsumerConfig.FetchLimit is 1..MaxFetch.
MaxFetch == 2
\* retrypolicy ... WithMaxRetries(5): an operation is tried once and then
\* retried at most this often.
MaxRetries == 5

\* cons.Fetch(FetchLimit): the first messages not yet delivered, at most
\* FetchLimit of them, in stream order.
Deliverable(status, limit) ==
    LET stored(m) == status[m] = "stored"
        waiting == SelectSeq([m \in 1..Len(status) |-> m], stored)
    IN SubSeq(waiting, 1, Min(limit, Len(waiting)))

\* What the function given to failsafe.Run in fetchMessages returns after
\* cons.Fetch returned err: fmt.Errorf("failed to fetch messages ...: %w",
\* err), whether err is nil or not.
FetchAttemptErr(err) == Wrap("failed to fetch messages", err)

\* for msg := range msgs.Messages(): the events of the messages up to the
\* first whose InProgress fails (brokeAt; 0: none fails), Index counting
\* from 0.
Events(batch, brokeAt) ==
    LET cnt == IF brokeAt \in 1..Len(batch) THEN brokeAt - 1 ELSE Len(batch)
    IN [j \in 1..cnt |-> [Index |-> j - 1, Payload |-> batch[j]]]

\* ackSuccessfulMsgs: the indices whose message is acknowledged; failing are
\* the indices whose Ack fails on every try.
ackSuccessfulMsgs(res, nAcks, failing) ==
    {res[k] : k \in {k \in 1..Len(res) :
                        /\ ~(res[k] < 0 \/ res[k] >= nAcks)
                        /\ res[k] \notin failing}}

\* The state of the loop when it fetches: nothing fetched, nobody asked.
Fetching(status) ==
    [done |-> FALSE, err |-> NoErr, pc |-> "fetch", attempts |-> 0,
     status |-> status, fetched |-> <<>>, brokeAt |-> 0, events |-> <<>>,
     invoked |-> FALSE, res |-> <<>>, acked |-> {}]

\* The rest of an iteration, once fetchMessages returned msgs and no error.
ProcessBatch(st, batch, brokeAt, res, failing) ==
    LET events == Events(batch, brokeAt)
        acked == ackSuccessfulMsgs(res, Len(events), failing)
    IN IF Len(events) = 0
       THEN [st EXCEPT !.attempts = 0, !.fetched = batch, !.brokeAt = brokeAt]
       ELSE [st EXCEPT !.attempts = 0, !.fetched = batch, !.brokeAt = brokeAt,
                       !.events = events, !.invoked = TRUE, !.res = res,
                       !.acked = acked,
                       !.status = [m \in DOMAIN @ |->
                                      IF \E i \in acked : batch[i + 1] = m
                                      THEN "acked" ELSE @[m]]]

\* p.stream.CreateOrUpdateConsumer(...), and the return on its error
CreateOrUpdateConsumer(fail) ==
    /\ call.fn = "Consume"
    /\ result.pc = "create"
    /\ result' = IF fail
                 THEN [result EXCEPT
                          !.done = TRUE, !.pc = "returned",
                          !.err = Wrap("failed to create or update consumer",
                                       DriverErr)]
                 ELSE [result EXCEPT !.pc = "fetch"]
    /\ UNCHANGED <<poolVars, txVars, call>>

\* One try of cons.Fetch inside fetchMessages and what follows its return:
\* another try, or `continue` when the retries are used up, or the rest of
\* the iteration.  serverOk: the server answers the fetch; res: what the
\* callback returns.
ConsumeFetch(serverOk, brokeAt, res, failing) ==
    /\ call.fn = "Consume"
    /\ result.pc = "fetch"
    /\ LET batch == IF serverOk
                    THEN Deliverable(result.status, call.FetchLimit)
                    ELSE <<>>
           err == FetchAttemptErr(IF serverOk THEN NoErr ELSE DriverErr)
           delivered == [m \in DOMAIN result.status |->
                            IF \E j \in 1..Len(batch) : batch[j] = m
                            THEN "delivered" ELSE result.status[m]]
           st == Fetching(delivered)
       IN result' =
              IF err = NoErr
              THEN ProcessBatch(st, batch, brokeAt, res, failing)
              ELSE IF result.attempts < MaxRetries
              THEN [st EXCEPT !.attempts = result.attempts + 1,
                              !.fetched = batch]
              ELSE [st EXCEPT !.fetched = batch]
    /\ UNCHANGED <<poolVars, txVars, call>>

\* ---------------------------------------------------------- specification

\* What a callback returns: up to two indices, in and out of the range of a
\* batch, the same one twice too.
CallbackResults == UNION {[1..m -> -1..MaxFetch] : m \in 0..2}

QueueCalls ==
    {[fn |-> "Consume", n |-> n, FetchLimit |-> l] :
        n \in 0..MaxMsgs, l \in 1..MaxFetch}

InitQueue ==
    /\ ManagerReady
    /\ TxIdle
    /\ call \in QueueCalls
    /\ result = [Fetching([m \in 1..call.n |-> "stored"]) EXCEPT !.pc = "create"]

NextQueue ==
    \/ \E fail \in BOOLEAN : CreateOrUpdateConsumer(fail)
    \/ \E serverOk \in BOOLEAN, brokeAt \in 0..MaxFetch, res \in CallbackResults,
          failing \in SUBSET (0..(MaxFetch - 1)) :
          ConsumeFetch(serverOk, brokeAt, res, failing)

SpecQueue == InitQueue /\ [][NextQueue]_vars

\* ------------------------------------------------ properties of the manager

\* A step in which connectAndMigratePool ran: the constructor's, or the loop's.
ConnectStep == (mpc = "new" /\ mpc' # "new") \/ tickConnects' > tickConnects
LoopConnectStep == tickConnects' > tickConnects

\* C5: once a Disconnect() without the reuse flag has returned, the health
\* loop makes no further connect attempt and installs no new pool.
C5_NoReconnectAfterDisconnect ==
    [][discDone => (~LoopConnectStep /\ pool' = pool)]_vars

\* C6: the teardown flag is never cleared once set; the loop's teardown check
\* with the flag set ends the loop, and an ended loop never runs (pings) again.
C6_TeardownMonotonic ==
    [][/\ (isTeardown => isTeardown')
       /\ (hpc = "check" /\ isTeardown /\ hpc' # hpc => hpc' = "exited")
       /\ (hpc = "exited" => hpc' = "exited" /\ lastPing' = lastPing
                              /\ tickConnects' = tickConnects)]_vars

\* The loop has ended and a Disconnect(true) is running on the torn-down manager.
C6_Witness ==
    isTeardown /\ hpc = "exited" /\ mpc = "closing" /\ discArg /\ discDone

\* The server is reachable, no teardown is requested and no Disconnect runs.
Quiet == env = "up" /\ ~isTeardown /\ mpc # "closing"
\* The last ping succeeded on a pool installed by the connect that followed
\* the last failed ping.
Recovered == lastPing = "ok" /\ lastConnect = "ok" /\ poolOpen
\* A ping has failed and no connect has been made since.
PingJustFailed == lastPing = "fail" /\ lastConnect = "none" /\ hpc # "exited"

\* C7: after a failed ping with the server reachable from then on, the loop
\* eventually holds a newly connected pool on which the next ping succeeds; a
\* successful reconnect replaces the handle by an open pool, and a connect is
\* attempted only when the last ping failed.
C7_Recovery ==
    /\ []((PingJustFailed /\ []Quiet) => <>Recovered)
    /\ [][LoopConnectStep /\ lastConnect' = "ok" => pool' # pool /\ poolOpen']_vars
    /\ [][LoopConnectStep => hpc = "connect" /\ lastPing = "fail"]_vars

\* The loop sleeps after a ping that succeeded on a pool it installed itself.
C7_Witness ==
    Recovered /\ migratedByLoop /\ hpc = "sleep" /\ ~isTeardown /\ pool # 1

\* C8: the loop ends only on a teardown check with the flag set; a connect is
\* attempted only after a failed ping, at most once per iteration, and whatever
\* its result the loop goes on to sleep; after a failed reconnect, with the
\* flag unset, the ping is attempted again.
C8_LoopSurvivesFailures ==
    /\ [](hpc = "exited" => isTeardown)
    /\ [](tickConnects <= 1)
    /\ [][hpc' = "exited" /\ hpc # "exited" => hpc = "check" /\ isTeardown]_vars
    /\ [][LoopConnectStep => lastPing = "fail" /\ hpc' = "sleep"]_vars
    /\ []((hpc = "sleep" /\ lastConnect \in ConnectErrs /\ []~isTeardown)
              => <>(hpc = "ping"))

\* The loop is about to ping again after a failed ping and a failed reconnect.
C8_Witness ==
    hpc = "ping" /\ lastPing = "fail" /\ lastConnect \in ConnectErrs
        /\ ~isTeardown /\ tickConnects = 0

\* C9: a connect that fails, at whatever step, leaves d.pool (and the pool it
\* refers to) and the teardown flag as they were.
C9_FailedConnectKeepsState ==
    [][ConnectStep /\ lastConnect' \in ConnectErrs
          => pool' = pool /\ poolOpen' = poolOpen /\ isTeardown' = isTeardown]_vars

\* A reconnect failed in migrate, after opening a pool, with a prior pool held.
C9_Witness ==
    lastConnect = "migrateErr" /\ pool # 0 /\ hpc = "sleep" /\ leaked > 0

DisconnectStoreStep == mpc = "ready" /\ mpc' = "closing"
DisconnectCloseStep == mpc = "closing" /\ mpc' = "ready"

\* Disconnect(true) has returned on a manager that is not torn down: the
\* pool is closed and the health loop is still running.
ClosedForReuse ==
    mpc = "ready" /\ discArg /\ ~poolOpen /\ ~isTeardown /\ hpc # "exited"

\* C11: Disconnect closes the pool the manager holds; it sets the teardown
\* flag exactly when called without the reuse flag, and with the reuse flag
\* leaves the flag as it was; neither step touches the health loop, which
\* after a Disconnect(true), the flag staying unset, goes on to a failed ping
\* and a connect attempt.
C11_DisconnectEffect ==
    /\ [][DisconnectCloseStep => ~poolOpen' /\ pool' = pool]_vars
    /\ [][DisconnectStoreStep => /\ (~discArg' => isTeardown')
                                 /\ (discArg' => isTeardown' = isTeardown)]_vars
    /\ [][DisconnectStoreStep \/ DisconnectCloseStep => hpc' = hpc]_vars
    /\ []((ClosedForReuse /\ []~isTeardown)
              => <>(hpc = "connect" /\ lastPing = "fail"))

\* After a Disconnect(true) the loop's ping failed on the closed pool, with
\* the server reachable, and the loop is about to connect.
C11_Witness ==
    ClosedForReuse /\ hpc = "connect" /\ lastPing = "fail" /\ env = "up"
        /\ lastConnect = "none"

\* C12: a Disconnect called on a manager whose pool is already closed, with
\* the argument of the call that closed it, raises no fault, leaves the
\* teardown flag as it was and returns with the pool closed.
C12_DisconnectIdempotent ==
    /\ [](mpc # "panicked")
    /\ [][DisconnectStoreStep /\ discRepeat'
              => isTeardown' = isTeardown /\ poolOpen' = poolOpen]_vars
    /\ [][mpc = "closing" /\ mpc' # mpc /\ discRepeat
              => mpc' = "ready" /\ ~poolOpen' /\ isTeardown' = isTeardown]_vars

\* A repeated Disconnect() has returned on the torn-down manager whose loop
\* has ended, the pool being closed throughout.
C12_Witness ==
    mpc = "ready" /\ discRepeat /\ ~discArg /\ ~poolOpen /\ isTeardown
        /\ hpc = "exited" /\ pool = 1

\* C27: a manager has at most one open pool: the pool a reconnection
\* replaces is closed, and so is the pool of a connect that fails after it
\* opened one; no open pool is left that d.pool does not refer to.
C27_AtMostOneOpenPool ==
    /\ leaked = 0
    /\ (IF poolOpen THEN 1 ELSE 0) + leaked <= 1

\* The health loop is in connectAndMigratePool on its way to d.pool = pool.
LoopWritesPool ==
    /\ hpc = "connect"
    /\ PoolAfterConnect(ConnectOutcome(urlValid, migOk, env, FALSE), pool) # pool
\* A caller is in Disconnect on its way to d.pool.Close().
CallerReadsPool == mpc = "closing"

\* C28: d.pool is never about to be read by a caller while the health loop
\* is about to write it, the two steps being ordered by nothing: a caller
\* sees the old or the new pool through an access the loop's write is
\* ordered with.
C28_NoUnsynchronisedReadAndWrite == ~(LoopWritesPool /\ CallerReadsPool)

\* C29: a manager that NewDatabase returned has exactly one health loop:
\* the loop is started by NewDatabase at the return of a first connect that
\* succeeded and by nothing else, a NewDatabase that failed has started
\* none, and no reconnection starts another.
C29_OneHealthLoop ==
    /\ [](mpc \in {"new", "failed"} => loops = 0 /\ hpc = "none")
    /\ [](mpc \in {"ready", "closing", "panicked"} => loops = 1 /\ hpc # "none")
    /\ [][loops' # loops
             => mpc = "new" /\ mpc' = "ready" /\ lastConnect' = "ok"]_vars
    /\ [][LoopConnectStep => loops' = loops]_vars

\* The loop has reconnected, to a second pool, and is still the only one.
C29_Witness ==
    /\ loops = 1
    /\ mpc = "ready"
    /\ hpc = "sleep"
    /\ lastPing = "fail"
    /\ lastConnect = "ok"
    /\ pool = 2

\* ---------------------------------------------- properties of pagination

\* A SelectRowsPageable call has ended (returned, or faulted).
PageDone == call.fn = "SelectRowsPageable" /\ result.done
\* It returned a page and no error.
PageOk == PageDone /\ result.err = NoErr /\ result.fault = "none"

\* C13: with k caller arguments the clause appended to the query is
\* LIMIT $(k+1) OFFSET $(k+2), and the arguments at those two positions are
\* the page size and page index times page size.
C13_LimitOffsetAfterCallerArgs ==
    PageDone =>
        LET q == result.query
            k == Len(call.args)
        IN /\ SubSeq(q, Len(q) - 3, Len(q))
                  = <<" LIMIT ", PH(k + 1), " OFFSET ", PH(k + 2)>>
           /\ result.args[k + 1] = IntArg(call.pageRequest.Size)
           /\ result.args[k + 2]
                  = IntArg(call.pageRequest.Page * call.pageRequest.Size)

\* C14: the count query wraps the sorted base query without a LIMIT or
\* OFFSET clause and is sent with the caller's arguments only, so that
\* totalElements is the number of rows the base query matches.
C14_CountQueryWithoutLimit ==
    (PageDone /\ result.countQuery # <<>>) =>
        /\ \A i \in 1..Len(result.countQuery) :
               result.countQuery[i] \notin {" LIMIT ", " OFFSET "}
        /\ result.countArgs = call.args
        /\ (PageOk => result.page.TotalElements = call.n)

\* The least number of pages of size s that hold n rows.
CeilDiv(n, s) == CHOOSE m \in 0..n : m * s >= n /\ (m = 0 \/ (m - 1) * s < n)

\* C15: over N matching rows, page p of size s > 0 holds
\* min(s, max(0, N - p*s)) rows, with totalElements = N,
\* totalPages = ceil(N/s), isFirst = (p = 0), isLast = (p >= totalPages - 1).
C15_PageOverNRows ==
    PageOk =>
        LET p == call.pageRequest.Page
            s == call.pageRequest.Size
            N == call.n
        IN /\ Len(result.page.Content) = Min(s, Max(0, N - p * s))
           /\ result.page.NumberOfElements = Min(s, Max(0, N - p * s))
           /\ result.page.TotalElements = N
           /\ result.page.TotalPages = CeilDiv(N, s)
           /\ result.page.IsFirst = (p = 0)
           /\ result.page.IsLast = (p >= CeilDiv(N, s) - 1)

\* C16: a page returned without error agrees with itself and the request:
\* pageable, number and size are the request's, numberOfElements is the
\* length of content, isEmpty, isFirst and isLast follow from them, and
\* totalPages is totalElements / size rounded up.
C16_EnvelopeConsistent ==
    PageOk =>
        LET page == result.page
        IN /\ page.Pageable = call.pageRequest
           /\ page.Number = call.pageRequest.Page
           /\ page.Size = call.pageRequest.Size
           /\ page.Size > 0
           /\ page.NumberOfElements = Len(page.Content)
           /\ page.IsEmpty = (page.NumberOfElements = 0)
           /\ page.IsFirst = (page.Number = 0)
           /\ page.IsLast = (page.Number >= page.TotalPages - 1)
           /\ page.TotalPages * page.Size >= page.TotalElements
           /\ (page.TotalPages - 1) * page.Size < page.TotalElements
                  \/ (page.TotalPages = 0 /\ page.TotalElements = 0)

\* The second page of two rows came back: not first, and its single row
\* short of filling it.
C16_Witness ==
    /\ PageOk
    /\ result.page.Number = 1
    /\ result.page.Size = 2
    /\ result.page.NumberOfElements = 1
    /\ result.page.TotalElements = 1
    /\ result.page.TotalPages = 1
    /\ ~result.page.IsFirst

\* A directive as the sort clause shows it: "column,asc" and "column,desc"
\* with a blank for the comma, anything else as it is.
Rendered(sort) ==
    LET parts == Split(sort)
    IN IF Len(parts) = 2 /\ parts[2] \in {<<"asc">>, <<"desc">>}
       THEN parts[1] \o <<" ">> \o parts[2]
       ELSE sort

\* Directives joined by ", ".
RECURSIVE CommaJoined(_)
CommaJoined(ds) ==
    IF ds = <<>> THEN <<>>
    ELSE IF Len(ds) = 1 THEN Rendered(ds[1])
    ELSE Rendered(ds[1]) \o <<", ">> \o CommaJoined(Tail(ds))

IsDirective(sort) == sort # <<>>

\* One ORDER BY and the non-empty directives of the list, in order.
ExpectedSortClause(Sort) ==
    LET ds == SelectSeq(Sort, IsDirective)
    IN IF ds = <<>> THEN <<>> ELSE <<" ORDER BY ">> \o CommaJoined(ds)

\* C17: between the base query and the LIMIT clause the built query holds,
\* when the sort list has a non-empty directive, one ORDER BY followed by the
\* rendered non-empty directives joined by commas in the order given, and
\* nothing otherwise.
C17_OneOrderByBeforeDirectives ==
    PageDone =>
        SubSeq(result.query, 1, Len(result.query) - 4)
            = call.query \o ExpectedSortClause(call.pageRequest.Sort)

\* C25: a call with page size 0 never returns a page; when it returns an
\* error, that is the error of one of its two queries, and otherwise it ends
\* in the division fault, after the content query and the count query have
\* both been sent.
C25_SizeZeroFaultsAfterQueries ==
    (PageDone /\ call.pageRequest.Size = 0) =>
        /\ ~PageOk
        /\ (result.err # NoErr
              => /\ result.fault = "none"
                 /\ result.err[1] \in {"failed to execute query",
                                       "failed to get total elements"})
        /\ (result.err = NoErr
              => /\ result.fault = "integer divide by zero"
                 /\ result.query # <<>>
                 /\ result.countQuery # <<>>
                 /\ result.page.Content = <<>>)

\* A call with size 0 over five rows ran both queries and faulted.
C25_Witness ==
    /\ PageDone
    /\ call.pageRequest.Size = 0
    /\ call.n = 5
    /\ result.fault = "integer divide by zero"
    /\ result.countQuery # <<>>
    /\ result.err = NoErr

\* C26: a call that begins its transaction begins it read-only for
\* WithReadTX and read-write for WithTX; a call given a handle begins none
\* and runs fn on that handle, under the handle's mode whatever the call
\* asked for; nothing is ever written through a read-only transaction.
C26_ModeOfHandleNotOfCall ==
    /\ \A c \in Callers : \A i \in 1..Len(stack[c]) :
          LET f == stack[c][i]
          IN /\ f.began
                  => /\ ~f.hasExisting
                     /\ tx[f.h].mode
                            = (IF f.api = "WithReadTX" THEN "ro" ELSE "rw")
             /\ f.hasExisting
                  => /\ ~f.began
                     /\ i > 1
                     /\ f.h = stack[c][i - 1].h
    /\ \A t \in TxIds : tx[t].mode = "ro" => tx[t].nw = 0

\* WithTX was called with the handle of a WithReadTX transaction, and the
\* write its fn tried through it was refused.
C26_Witness ==
    \E c \in Callers :
        /\ Len(stack[c]) = 2
        /\ stack[c][1].api = "WithReadTX"
        /\ stack[c][2].api = "WithTX"
        /\ stack[c][2].hasExisting
        /\ tx[stack[c][2].h].mode = "ro"
        /\ tx[stack[c][2].h].poisoned

\* ------------------------------------------ properties of SelectRow, SelectRows

\* A struct type with a table annotation.
Mappable(T) ==
    /\ T.kind = "struct"
    /\ \E i \in 1..Len(T.fields) : T.fields[i].table.v # <<>>

\* A call of SelectRow or FindOne has returned, the statement having run
\* (and, for FindOne, been generated).
OneRowDone ==
    /\ call.fn \in {"SelectRow", "FindOne"}
    /\ result.done
    /\ ~result.failed
    /\ Mappable(call.T)
\* The same for SelectRows and Find.
ManyRowsDone ==
    /\ call.fn \in {"SelectRows", "Find"}
    /\ result.done
    /\ ~result.failed
    /\ Mappable(call.T)

\* C18: SelectRow and FindOne over a query that matches no row return an
\* error that errors.Is recognises as ErrNoRows through the wrapping; over a
\* query that matches exactly one row (that fits T) they return that row and
\* no error.
C18_NoRowsIsErrNoRows ==
    OneRowDone =>
        /\ (call.n = 0 => result.err # NoErr /\ ErrorsIs(result.err, ErrNoRows))
        /\ (call.n = 1 /\ call.decodable
               => result.err = NoErr /\ result.value = 1)

\* FindOne came back from a query without rows, ErrNoRows wrapped twice.
C18_Witness ==
    /\ OneRowDone
    /\ call.fn = "FindOne"
    /\ call.n = 0
    /\ Len(result.err) = 3
    /\ ErrorsIs(result.err, ErrNoRows)

\* C19: SelectRow and FindOne over a query that matches two or more rows
\* return an error; none of the rows comes back as a result.
C19_ManyRowsIsError ==
    (OneRowDone /\ call.n >= 2) =>
        result.err # NoErr /\ result.value = ZeroValue

FieldsWhere(T, P(_)) ==
    SelectSeq([i \in 1..Len(T.fields) |-> i], LAMBDA i : P(T.fields[i]))

HasTableTag(field) == field.table.v # <<>>
IsComputed(field) ==
    ~HasTableTag(field) /\ field.db.v # <<"-">> /\ field.query.v # <<>>
IsInsertable(field) ==
    field.db.v # <<>> /\ field.db.v # <<"-">> /\ ~field.query.has
IsKey(field) == IsInsertable(field) /\ field.primary.v = <<"true">>
IsNonKey(field) == IsInsertable(field) /\ ~IsKey(field)

SelectDone == call.fn = "generateSelectQuery" /\ result.done
InsertDone == call.fn = "generateInsertQuery" /\ result.done
InsertOk == InsertDone /\ result.err = NoErr

\* The select list the type asks for: the wildcard of the alias, then the
\* computed expressions in declaration order.
ExpectedSelectList(T) ==
    LET tables == FieldsWhere(T, HasTableTag)
        alias == SplitOn(T.fields[tables[1]].table.v, " ")[2]
        computed == FieldsWhere(T, IsComputed)
    IN <<alias \o <<".*">>>>
           \o [j \in 1..Len(computed) |->
                   T.fields[computed[j]].query.v \o <<" AS ">>
                       \o T.fields[computed[j]].db.v]

\* T has one table marker, and that with an alias.
OneAliasedTable(T) ==
    LET tables == FieldsWhere(T, HasTableTag)
    IN /\ T.kind = "struct"
       /\ Len(tables) = 1
       /\ Len(SplitOn(T.fields[tables[1]].table.v, " ")) = 2

\* C21: for a struct with a table marker the select list starts with the
\* wildcard of the table alias, wherever the marker field is declared, and
\* goes on with the computed expressions in declaration order; for a type
\* without a table marker there is an error and no query.
C21_WildcardFirst ==
    SelectDone =>
        /\ (OneAliasedTable(call.T) =>
               /\ result.err = NoErr
               /\ result.query =
                      <<"SELECT\n  ">>
                          \o Join(ExpectedSelectList(call.T), <<",\n  ">>)
                          \o <<"\nFROM ">>
                          \o call.T.fields[FieldsWhere(call.T, HasTableTag)[1]].table.v)
        /\ (~Mappable(call.T) => result.err # NoErr /\ result.query = <<>>)

\* The columns of the fields at the given indices.
ColumnsAt(T, idx) == [j \in 1..Len(idx) |-> T.fields[idx[j]].db.v]

\* The ON CONFLICT clause and what follows it, as the type asks for them.
ExpectedConflict(T) ==
    LET keys == ColumnsAt(T, FieldsWhere(T, IsKey))
        rest == ColumnsAt(T, FieldsWhere(T, IsNonKey))
        sets == [j \in 1..Len(rest) |-> rest[j] \o <<" = EXCLUDED.">> \o rest[j]]
    IN <<"ON CONFLICT(">> \o Join(keys, <<", ">>) \o <<")\n">>
           \o (IF rest = <<>> THEN <<"DO NOTHING">>
               ELSE <<"DO UPDATE SET ">> \o Join(sets, <<",\n">>))

\* C22: a generated insert ends with ON CONFLICT over exactly the
\* primary-key columns, then DO UPDATE SET with one assignment
\* col = EXCLUDED.col for each insertable column that is not a key
\* (columns - primaryKeys of them), or DO NOTHING when there is none.
C22_UpsertOverNonKeys ==
    InsertOk =>
        LET tail == ExpectedConflict(call.T)
            q == result.query
        IN /\ Len(q) >= Len(tail)
           /\ SubSeq(q, Len(q) - Len(tail) + 1, Len(q)) = tail
           /\ result.primaryKeys = ColumnsAt(call.T, FieldsWhere(call.T, IsKey))
           /\ Len(result.updateSet)
                  = Len(result.columns) - Len(result.primaryKeys)

\* An insert for a key, a second key and one more column, declared before
\* the table marker.
C22_Witness ==
    /\ InsertOk
    /\ Len(result.primaryKeys) = 2
    /\ Len(result.updateSet) = 1
    /\ HasTableTag(call.T.fields[4])

\* C23: in a generated insert the columns, the placeholders $1..$n and the
\* values have one length and one order, that of the insertable fields in
\* declaration order; computed, ignored and untagged fields are in none.
C23_ColumnsPlaceholdersValuesAgree ==
    InsertOk =>
        LET idx == FieldsWhere(call.T, IsInsertable)
            n == Len(idx)
        IN /\ result.columns = ColumnsAt(call.T, idx)
           /\ result.placeholders = [j \in 1..n |-> <<PH(j)>>]
           /\ result.values = [j \in 1..n |-> call.T.fields[idx[j]].value]
           /\ SubSeq(result.query, 1, Len(result.query)
                                          - Len(ExpectedConflict(call.T)))
                  = <<"INSERT INTO ">>
                        \o TableName(call.T.fields) \o <<" (">>
                        \o Join(result.columns, <<", ">>) \o <<")\n">>
                        \o <<"VALUES (">>
                        \o Join(result.placeholders, <<", ">>) \o <<")\n">>

\* An insert for a type with a computed and an ignored field between the
\* key and a plain column: the second value is that of the fourth field.
C23_Witness ==
    /\ InsertOk
    /\ result.values = <<1, 4>>
    /\ call.T.fields[2].query.has
    /\ Len(call.T.fields) = 4

\* A struct type with an insertable primary-key column.
HasKey(T) == \E i \in 1..Len(T.fields) : IsKey(T.fields[i])

\* C24: Save on data whose struct has no table annotation or no primary-key
\* column returns the generation error, wrapped, and sends no statement to
\* the handle; FindOne and Find on a type without a table annotation return
\* an error and send no query.
C24_GenerationErrorSendsNothing ==
    /\ (call.fn = "Save" /\ result.done /\ call.T.kind = "struct"
            /\ (~Mappable(call.T) \/ ~HasKey(call.T))
          => /\ Len(result.err) = 2
             /\ result.err[1] = "failed to generate insert query"
             /\ <<result.err[2]>> \in {MissingTableErr, NoPrimaryKeyErr}
             /\ result.sent = <<>>)
    /\ (call.fn \in {"FindOne", "Find"} /\ result.done /\ ~Mappable(call.T)
          => /\ result.err # NoErr
             /\ result.err[1] = "failed to generate select query"
             /\ result.sent = <<>>)

\* Save came back from data with a table marker and columns, none a key.
C24_Witness ==
    /\ call.fn = "Save"
    /\ result.done
    /\ Mappable(call.T)
    /\ ~HasKey(call.T)
    /\ \E i \in 1..Len(call.T.fields) : IsInsertable(call.T.fields[i])
    /\ result.err = Wrap("failed to generate insert query", NoPrimaryKeyErr)
    /\ result.sent = <<>>

\* ------------------------------------------- properties of the queue consumer

\* Consume is between two iterations of its loop.
IterationOver ==
    call.fn = "Consume" /\ result.pc = "fetch" /\ result.attempts = 0

\* C30: the messages a fetch delivered, up to the first that could not be
\* marked in progress, are the batch the callback is given; the callback is
\* not asked about an empty batch; and the messages acknowledged are exactly
\* those whose index the callback returned and that lies in [0, batch
\* length), other indices being passed over.
C30_AcksReturnedIndicesInRange ==
    IterationOver =>
        /\ (result.fetched # <<>> /\ result.brokeAt # 1
               => result.events # <<>> /\ result.invoked)
        /\ (result.invoked <=> result.events # <<>>)
        /\ result.acked =
               {i \in 0..(Len(result.events) - 1) :
                   \E k \in 1..Len(result.res) : result.res[k] = i}
        /\ \A m \in 1..call.n :
               result.status[m] = "acked"
                   => \E i \in result.acked : result.fetched[i + 1] = m

\* ------------------------------------- properties of the transaction scope

FramesOf(c) == {stack[c][i] : i \in 1..Len(stack[c])}

\* In this step a call of c that was given an existing handle starts or returns.
ReuseStep(c) ==
    \/ /\ Len(stack'[c]) = Len(stack[c]) + 1
       /\ stack'[c][Len(stack'[c])].hasExisting
    \/ /\ Len(stack'[c]) = Len(stack[c]) - 1
       /\ Top(c).hasExisting

\* In this step a COMMIT or a ROLLBACK is issued on transaction t.
EndsTx(t) ==
    tx'[t].commits # tx[t].commits \/ tx'[t].rollbacks # tx[t].rollbacks

\* C1: a call given an existing handle runs fn on exactly that handle and
\* issues no BEGIN, COMMIT or ROLLBACK of its own: while nested calls share a
\* handle its transaction has seen one BEGIN and nothing else, and a COMMIT
\* or ROLLBACK is only ever issued by the call that began the transaction.
C1_ExistingHandleIsReused ==
    /\ [](\A c \in Callers : \A f \in FramesOf(c) :
            f.hasExisting =>
                /\ ~f.began
                /\ f.h = f.existing
                /\ tx[f.h].status = "open"
                /\ tx[f.h].begins = 1
                /\ tx[f.h].commits = 0
                /\ tx[f.h].rollbacks = 0)
    /\ [](\A t \in TxIds : tx[t].begins <= 1 /\ tx[t].commits <= 1
                              /\ tx[t].rollbacks <= 1)
    /\ [][\A c \in Callers : ReuseStep(c) => tx' = tx]_vars
    /\ [][\A t \in TxIds : EndsTx(t) =>
             \E c \in Callers :
                 /\ stack[c] # <<>>
                 /\ Top(c).began /\ ~Top(c).hasExisting /\ Top(c).h = t
                 /\ Len(stack'[c]) <= Len(stack[c])]_vars

\* A caller's stack is full: the call that began a transaction at the bottom,
\* above it only calls that were handed its handle, and a row written in it.
C1_Witness ==
    \E c \in Callers :
        /\ Len(stack[c]) = MaxDepth
        /\ stack[c][1].began
        /\ \A i \in 2..MaxDepth :
               stack[c][i].hasExisting /\ stack[c][i].h = stack[c][1].h
        /\ tx[stack[c][1].h].nw > 0

\* C2: a transaction begun by a top-level call gets a COMMIT exactly when fn
\* returned no error, and is committed exactly when that COMMIT succeeded;
\* the rows of a transaction that ended without committing are invisible to
\* every concurrent read-only transaction, those of a committed one visible.
C2_CommitIffFnSucceeds ==
    /\ (ret.valid /\ ret.began) =>
           /\ (tx[ret.h].commits = 1 <=> ret.fnErr = NoErr)
           /\ (tx[ret.h].status = "committed"
                   <=> (ret.fnErr = NoErr /\ ret.commitErr = NoErr))
           /\ (ret.fnErr # NoErr => Writes(ret.h) \cap db = {})
    /\ \A t \in TxIds : \A r \in Readers \ {t} :
           /\ (tx[t].status \in {"rolledback", "aborted"}
                   => Writes(t) \cap Snapshot(r) = {})
           /\ (tx[t].status = "committed" => Writes(t) \subseteq Snapshot(r))

\* A top-level call whose fn wrote a row and then failed has returned, while
\* another goroutine holds an open read-only transaction.
C2_Witness ==
    /\ ret.valid /\ ret.began /\ ret.fnErr # NoErr
    /\ Writes(ret.h) # {}
    /\ Readers # {}

\* C3: when a call that began a transaction returns, the transaction is
\* finished, on the fn-error, commit-error and success paths alike; the
\* deferred rollback sends a ROLLBACK on the fn-error path and is a no-op
\* after a commit; a transaction is open only while the call that began it is
\* still running.
C3_NoTransactionLeftOpen ==
    /\ (ret.valid /\ ret.began) =>
           /\ tx[ret.h].status \in Finished
           /\ (ret.fnErr # NoErr =>
                   tx[ret.h].status = "rolledback" /\ tx[ret.h].rollbacks = 1)
           /\ (ret.fnErr = NoErr =>
                   tx[ret.h].rollbacks = 0 /\ ret.rbErr = TxClosedErr)
    /\ \A t \in TxIds :
           tx[t].status = "open" =>
               \E c \in Callers : \E f \in FramesOf(c) : f.began /\ f.h = t

\* A call returned on the commit-error path.
C3_Witness ==
    /\ ret.valid /\ ret.began
    /\ ret.fnErr = NoErr /\ ret.commitErr # NoErr
    /\ tx[ret.h].status = "aborted"

\* C4: a top-level call returns nil exactly when begin, fn and commit all
\* succeeded; an fn error, a commit error and a begin error are returned
\* wrapped; what the deferred rollback returned plays no part.
C4_ResultIgnoresRollback ==
    (ret.valid /\ ~ret.hasExisting) =>
        /\ (ret.result = NoErr
               <=> (ret.began /\ ret.fnErr = NoErr /\ ret.commitErr = NoErr))
        /\ (ret.began /\ ret.fnErr # NoErr =>
               Len(ret.result) = Len(ret.fnErr) + 1 /\ Tail(ret.result) = ret.fnErr)
        /\ (ret.began /\ ret.fnErr = NoErr /\ ret.commitErr # NoErr =>
               Tail(ret.result) = ret.commitErr)
        /\ (~ret.began => Tail(ret.result) = DriverErr)

\* A call returned nil although its deferred rollback returned an error.
C4_Witness ==
    /\ ret.valid /\ ret.began
    /\ ret.rbErr # NoErr
    /\ ret.result = NoErr

====
